---- MODULE Spec2Model ----
(***************************************************************************)
(* Model of pkg/apk/index.go: the process-wide index cache (indexCache.get),*)
(* the orchestrator (GetRepositoryIndexes) and the fetch+verify+decode      *)
(* computation (getRepositoryIndex).                                        *)
(*                                                                          *)
(* Strings are sequences of lexical tokens ("https://", "@", " ", "/" and   *)
(* names), so that strings.HasPrefix, strings.Fields, slicing and           *)
(* fmt.Sprintf("%s/%s/%s") are computed rather than assumed.                *)
(***************************************************************************)
EXTENDS Integers, Sequences, FiniteSets, TLC

VARIABLES
    onces,      \* indexCache.onces: URL -> state of its sync.Once
    mutex,      \* indexCache.Mutex: the holder, or NoProc
    modtimes,   \* indexCache.modtimes: URL -> recorded modification time, or NoTime
    indexes,    \* indexCache.indexes: URL -> indexResult, or Absent
    fs,         \* the filesystem: local path -> file (existence, mtime, bytes)
    procs,      \* per caller: position and locals of GetRepositoryIndexes / get
    fetches,    \* per URL: number of getRepositoryIndex executions (capped)
    calls,      \* number of GetRepositoryIndexes calls started
    fx          \* scratch of the stand-alone getRepositoryIndex specification

vars == <<onces, mutex, modtimes, indexes, fs, procs, fetches, calls, fx>>

-----------------------------------------------------------------------------
(* Bounds *)

NumProcs == 2
MaxCalls == 2
MaxTime == 2
MaxFetches == 2
MaxLines == 2

-----------------------------------------------------------------------------
(* Strings as token sequences *)

HasPrefix(s, tok) == Len(s) >= 1 /\ s[1] = tok

Canon(s) == [i \in 1..Len(s) |-> s[i]]

\* strings.Fields: the maximal runs of non-space tokens, in order.
RECURSIVE FieldsFrom(_, _, _)
FieldsFrom(s, i, cur) ==
    IF i > Len(s)
    THEN IF cur = <<>> THEN <<>> ELSE <<cur>>
    ELSE IF s[i] = " "
         THEN (IF cur = <<>> THEN <<>> ELSE <<cur>>) \o FieldsFrom(s, i + 1, <<>>)
         ELSE FieldsFrom(s, i + 1, Append(cur, s[i]))

Fields(s) == FieldsFrom(s, 1, <<>>)

indexFilename == "APKINDEX.tar.gz"

IndexURL(repo, arch) == repo \o <<"/", arch, "/", indexFilename>>

RepoBase(repoURL, arch) == repoURL \o <<"/", arch>>

-----------------------------------------------------------------------------
(* Values: errors, indexes, byte strings, trust-key sets *)

E(kind) == [kind |-> kind, u |-> <<>>, arch |-> "", name |-> <<>>,
            scheme |-> "", code |-> 0]

NoErr == E("nil")

NilIdx == [from |-> "nil"]

\* indexResult{idx, err}
indexResult(idx, err) == [idx |-> idx, err |-> err]

Absent == [idx |-> [from |-> "absent"], err |-> E("absent")]

\* The byte strings a file or a response body can hold.  A container is a
\* gzip stream holding a tar record (the detached signature) followed by the
\* rest of the bytes (the signed payload).
\*   gzip    gzip.NewReader accepts the bytes
\*   first   name of the first tar record; <<>> when tarReader.Next fails
\*   sigOk   io.ReadAll of the first record succeeds
\*   nextOk  the second tarReader.Next returns nil or io.EOF
\*   sig     the signature bytes: made with key `by` over digest `over`
\*   data    the bytes after the first gzip stream (b[readBytes:])
\*   decode  IndexFromArchive accepts the whole byte string
SigK1 == <<".SIGN.RSA.", "k1", ".rsa.pub">>
SigK3 == <<".SIGN.RSA.", "k3", ".rsa.pub">>

Container(b) ==
    CASE b = "signed_k1" ->
           [gzip |-> TRUE, first |-> SigK1, sigOk |-> TRUE, nextOk |-> TRUE,
            sig |-> [by |-> "K1", over |-> "d1"], data |-> "d1", decode |-> TRUE]
      [] b = "signed_alias" ->
           [gzip |-> TRUE, first |-> SigK1, sigOk |-> TRUE, nextOk |-> TRUE,
            sig |-> [by |-> "K2", over |-> "d2"], data |-> "d2", decode |-> TRUE]
      [] b = "signed_k3" ->
           [gzip |-> TRUE, first |-> SigK3, sigOk |-> TRUE, nextOk |-> TRUE,
            sig |-> [by |-> "K3", over |-> "d3"], data |-> "d3", decode |-> TRUE]
      [] b = "tampered" ->
           [gzip |-> TRUE, first |-> SigK1, sigOk |-> TRUE, nextOk |-> TRUE,
            sig |-> [by |-> "K1", over |-> "d1"], data |-> "d4", decode |-> TRUE]
      [] b = "signed_undecodable" ->
           [gzip |-> TRUE, first |-> SigK1, sigOk |-> TRUE, nextOk |-> TRUE,
            sig |-> [by |-> "K1", over |-> "d5"], data |-> "d5", decode |-> FALSE]
      [] b = "unsigned" ->
           [gzip |-> TRUE, first |-> <<"DESCRIPTION">>, sigOk |-> TRUE, nextOk |-> TRUE,
            sig |-> [by |-> "none", over |-> "none"], data |-> "d6", decode |-> TRUE]
      [] b = "bad_sig_read" ->
           [gzip |-> TRUE, first |-> SigK1, sigOk |-> FALSE, nextOk |-> TRUE,
            sig |-> [by |-> "none", over |-> "none"], data |-> "d7", decode |-> FALSE]
      [] b = "bad_next" ->
           [gzip |-> TRUE, first |-> SigK1, sigOk |-> TRUE, nextOk |-> FALSE,
            sig |-> [by |-> "K1", over |-> "d8"], data |-> "d8", decode |-> FALSE]
      [] b = "empty_tar" ->
           [gzip |-> TRUE, first |-> <<>>, sigOk |-> FALSE, nextOk |-> FALSE,
            sig |-> [by |-> "none", over |-> "none"], data |-> "d9", decode |-> FALSE]
      [] OTHER ->  \* "garbage": not a gzip stream at all
           [gzip |-> FALSE, first |-> <<>>, sigOk |-> FALSE, nextOk |-> FALSE,
            sig |-> [by |-> "none", over |-> "none"], data |-> "d0", decode |-> FALSE]

AllBytes == {"signed_k1", "signed_alias", "signed_k3", "tampered",
             "signed_undecodable", "unsigned", "bad_sig_read", "bad_next",
             "empty_tar", "garbage"}

\* keys map[string][]byte: nil, or a map given as its set of (name, data) entries.
KeyName(k) == <<k, ".rsa.pub">>

KeysNil == [isNil |-> TRUE, m |-> {}]
KeysOf(entries) == [isNil |-> FALSE, m |-> entries]
KeysEmpty == KeysOf({})
KeysK1 == KeysOf({[name |-> KeyName("k1"), data |-> "K1"]})
KeysK2 == KeysOf({[name |-> KeyName("k2"), data |-> "K2"]})
KeysK1K2 == KeysOf({[name |-> KeyName("k1"), data |-> "K1"],
                    [name |-> KeyName("k2"), data |-> "K2"]})
KeysStale == KeysOf({[name |-> KeyName("k1"), data |-> "K9"]})

AllTrustSets == {KeysNil, KeysEmpty, KeysK1, KeysK2, KeysK1K2, KeysStale}

\* indexOpts (the httpClient override does not change any outcome modelled here)
indexOpts(ign) == [ignoreSignatures |-> ign]

-----------------------------------------------------------------------------
(* getRepositoryIndex: fetch + verify + decode *)

\* What the world answers to one computation:
\*   parse   url.Parse succeeds
\*   scheme  scheme of the parsed URL of a non-https string, after uri.New
\*   read    os.ReadFile: "ok", "notexist" or "error"
\*   rt      the transport's RoundTrip: "ok" or "error"
\*   status  the response status code
\*   copy    io.Copy of the body: "ok" or "error"
\*   b       the bytes read (file content or response body)
World(parse, scheme, read, rt, status, copy, b) ==
    [parse |-> parse, scheme |-> scheme, read |-> read, rt |-> rt,
     status |-> status, copy |-> copy, b |-> b]

http_StatusOK == 200
http_StatusNotFound == 404

\* The outcome of a computation, with what it did on the way:
\*   decoded  the inputs the decoder was invoked on, in order
\*   verify   the verification steps executed, in order
Out(idx, err, decoded, verify) ==
    [idx |-> idx, err |-> err, decoded |-> decoded, verify |-> verify]

Fail(err, verify) == Out(NilIdx, err, <<>>, verify)

\* signatureFileRegex.FindStringSubmatch: `^\.SIGN\.RSA\.(.*\.rsa\.pub)$`
FindStringSubmatch(name) ==
    IF Len(name) >= 2 /\ name[1] = ".SIGN.RSA." /\ name[Len(name)] = ".rsa.pub"
    THEN <<name, Canon(SubSeq(name, 2, Len(name)))>>
    ELSE <<>>

\* sign.HashData: the SHA-1 digest of the given bytes
HashData(data) == [sha1 |-> data]

\* sign.RSAVerifySHA1Digest: TRUE when it returns a nil error
RSAVerifySHA1Digest(digest, signature, keyData) ==
    /\ signature.by = keyData
    /\ signature.over = digest.sha1

\* IndexFromArchive: the decoder, on the bytes it is given
IndexFromArchive(b) ==
    IF Container(b).decode
    THEN [idx |-> [from |-> b], ok |-> TRUE]
    ELSE [idx |-> NilIdx, ok |-> FALSE]

\* Lines 282-296: `verified` after the named-key attempt and the loop over
\* every key.  The named-key attempt only ever assigns false.
KeyCheckNoFallback(digest, signature, keys, name) ==
    LET named == {e \in keys.m : e.name = name}
    IN  IF named # {}
        THEN \E e \in named : RSAVerifySHA1Digest(digest, signature, e.data)
        ELSE \E e \in keys.m : RSAVerifySHA1Digest(digest, signature, e.data)

KeyCheck(digest, signature, keys, name) ==
    LET named == {e \in keys.m : e.name = name}
        ok == named # {}
        verified0 == FALSE
        verified1 == IF ok /\ \E e \in named :
                                 ~RSAVerifySHA1Digest(digest, signature, e.data)
                     THEN FALSE
                     ELSE verified0
        verified2 == IF ~verified1
                     THEN \E e \in keys.m :
                              RSAVerifySHA1Digest(digest, signature, e.data)
                     ELSE verified1
    IN  verified2

\* Line 279: the check that keys were provided
NoKeys(keys) == keys.isNil

\* Lines 236-300: signature validation.  Yields the error (NoErr when the
\* signature is valid) and the steps executed.
Verify(b, keys) ==
    LET c == Container(b)
        matches == FindStringSubmatch(c.first)
        indexData == c.data
        indexDigest == HashData(indexData)
    IN  IF ~c.gzip
        THEN [err |-> E("unable to create gzip reader"), steps |-> <<"gzip">>]
        ELSE IF c.first = <<>>
        THEN [err |-> E("failed to read signature"), steps |-> <<"gzip", "tar">>]
        ELSE IF Len(matches) # 2
        THEN [err |-> [E("failed to find key name in signature file name")
                           EXCEPT !.name = c.first],
              steps |-> <<"gzip", "tar", "name">>]
        ELSE IF ~c.sigOk
        THEN [err |-> E("failed to read signature"),
              steps |-> <<"gzip", "tar", "name", "sig">>]
        ELSE IF ~c.nextOk
        THEN [err |-> E("unexpected error reading from tgz"),
              steps |-> <<"gzip", "tar", "name", "sig", "next">>]
        ELSE IF NoKeys(keys)
        THEN [err |-> E("no keys provided to verify signature"),
              steps |-> <<"gzip", "tar", "name", "sig", "next", "hash">>]
        ELSE IF ~KeyCheck(indexDigest, c.sig, keys, matches[2])
        THEN [err |-> [E("no key found to verify signature")
                           EXCEPT !.name = matches[2]],
              steps |-> <<"gzip", "tar", "name", "sig", "next", "hash", "keys">>]
        ELSE [err |-> NoErr,
              steps |-> <<"gzip", "tar", "name", "sig", "next", "hash", "keys">>]

\* A computation that validates the signature whatever the options say.
VerifyAlwaysAndDecode(u, b, keys, opts) ==
    LET v == Verify(b, keys)
        d == IndexFromArchive(b)
    IN  IF v.err # NoErr
        THEN Fail(v.err, v.steps)
        ELSE IF ~d.ok
        THEN Out(NilIdx, [E("unable to read convert repository index bytes")
                              EXCEPT !.u = u], <<b>>, v.steps)
        ELSE Out(d.idx, NoErr, <<b>>, v.steps)

\* Lines 235-307: validate unless ignoreSignatures, then decode the bytes.
VerifyAndDecode(u, b, keys, opts) ==
    LET v == IF ~opts.ignoreSignatures
             THEN Verify(b, keys)
             ELSE [err |-> NoErr, steps |-> <<>>]
        d == IndexFromArchive(b)
    IN  IF v.err # NoErr
        THEN Fail(v.err, v.steps)
        ELSE IF ~d.ok
        THEN Out(NilIdx, [E("unable to read convert repository index bytes")
                              EXCEPT !.u = u], <<b>>, v.steps)
        ELSE Out(d.idx, NoErr, <<b>>, v.steps)

\* A computation that has no case of its own for the not-found status.
getRepositoryIndexNoNotFound(u, keys, arch, opts, w) ==
    LET scheme == IF HasPrefix(u, "https://") THEN "https" ELSE w.scheme
    IN  IF ~w.parse
        THEN Fail(E("failed to parse repo as URI"), <<>>)
        ELSE IF scheme = "file"
        THEN IF w.read = "error"
             THEN Fail([E("failed to read repository") EXCEPT !.u = u], <<>>)
             ELSE IF w.read = "notexist"
             THEN Fail(NoErr, <<>>)
             ELSE VerifyAndDecode(u, w.b, keys, opts)
        ELSE IF scheme = "https"
        THEN IF w.rt = "error"
             THEN Fail([E("unable to get repository index") EXCEPT !.u = u], <<>>)
             ELSE IF w.status # http_StatusOK
             THEN Fail([E("unexpected status code")
                            EXCEPT !.code = w.status, !.arch = arch, !.u = u], <<>>)
             ELSE IF w.copy = "error"
             THEN Fail([E("unable to read repository index") EXCEPT !.u = u], <<>>)
             ELSE VerifyAndDecode(u, w.b, keys, opts)
        ELSE Fail([E("repository scheme not supported") EXCEPT !.scheme = scheme],
                  <<>>)

\* Lines 164-308.  http.NewRequestWithContext (line 200) fails on no URL that
\* url.Parse has accepted, and the Basic-Auth header (lines 205-209) changes
\* the request, not the path taken here.
getRepositoryIndexFull(u, keys, arch, opts, w) ==
    LET scheme == IF HasPrefix(u, "https://") THEN "https" ELSE w.scheme
    IN  IF ~w.parse
        THEN Fail(E("failed to parse repo as URI"), <<>>)
        ELSE IF scheme = "file"
        THEN IF w.read = "error"
             THEN Fail([E("failed to read repository") EXCEPT !.u = u], <<>>)
             ELSE IF w.read = "notexist"
             THEN Fail(NoErr, <<>>)
             ELSE VerifyAndDecode(u, w.b, keys, opts)
        ELSE IF scheme = "https"
        THEN IF w.rt = "error"
             THEN Fail([E("unable to get repository index") EXCEPT !.u = u], <<>>)
             ELSE IF w.status = http_StatusNotFound
             THEN Fail([E("repository index not found for architecture")
                            EXCEPT !.arch = arch, !.u = u], <<>>)
             ELSE IF w.status # http_StatusOK
             THEN Fail([E("unexpected status code")
                            EXCEPT !.code = w.status, !.arch = arch, !.u = u], <<>>)
             ELSE IF w.copy = "error"
             THEN Fail([E("unable to read repository index") EXCEPT !.u = u], <<>>)
             ELSE VerifyAndDecode(u, w.b, keys, opts)
        ELSE Fail([E("repository scheme not supported") EXCEPT !.scheme = scheme],
                  <<>>)

getRepositoryIndex(u, keys, arch, opts, w) ==
    LET r == getRepositoryIndexFull(u, keys, arch, opts, w)
    IN  indexResult(r.idx, r.err)

-----------------------------------------------------------------------------
(* The callers, the repository lines and the URLs they resolve to *)

Procs == 1..NumProcs

NoProc == 0

NoTime == -1

Arch == "x86_64"

RepoRemote == <<"https://", "r.test/main">>
RepoPinned == <<"@", "corp", " ", "https://", "r.test/main">>
RepoLocal == <<"/", "srv/repo">>
RepoHTTP == <<"http://", "h.test/main">>
RepoBadPin == <<"@", "corp">>

RemoteURLs == {IndexURL(RepoRemote, Arch)}

\* The strings get treats as filesystem paths, and the one among them that
\* names a file somebody writes.
LocalURLs == {IndexURL(RepoLocal, Arch), IndexURL(RepoHTTP, Arch)}

Files == {IndexURL(RepoLocal, Arch)}

URLs == RemoteURLs \cup LocalURLs

NoFile == [exists |-> FALSE, mtime |-> 0, b |-> "none"]

File(t, b) == [exists |-> TRUE, mtime |-> t, b |-> b]

NoRet == [indexes |-> <<>>, err |-> E("running")]

IdleProc ==
    [pc |-> "idle", repos |-> <<>>, keys |-> KeysNil, opts |-> indexOpts(FALSE),
     i |-> 0, out |-> <<>>, name |-> <<>>, base |-> <<>>, u |-> <<>>,
     mod |-> NoTime, res |-> Absent, ret |-> NoRet, ctx |-> "live"]

FxIdle == [pc |-> "off", u |-> <<>>, keys |-> KeysNil, opts |-> indexOpts(FALSE),
           w |-> World(TRUE, "file", "ok", "ok", 0, "ok", "none"),
           out |-> Fail(NoErr, <<>>)]

\* globalIndexCache (lines 47-49) before any call, on an empty filesystem
InitCache ==
    /\ onces = [u \in RemoteURLs |-> "absent"]
    /\ mutex = NoProc
    /\ modtimes = [u \in URLs |-> NoTime]
    /\ indexes = [u \in URLs |-> Absent]
    /\ fs = [u \in LocalURLs |-> NoFile]
    /\ procs = [p \in Procs |-> IdleProc]
    /\ fetches = [u \in RemoteURLs |-> 0]
    /\ calls = 0

Init == InitCache /\ fx = FxIdle

-----------------------------------------------------------------------------
(* GetRepositoryIndexes and indexCache.get, step by step *)

Set(p, rec) == procs' = [procs EXCEPT ![p] = rec]

\* A return that hands back the indexes collected so far, whatever the error.
ReturnCollected(me, list, err) ==
    [IdleProc EXCEPT !.pc = "done", !.ret = [indexes |-> me.out, err |-> err]]

\* GetRepositoryIndexes returns: the arguments and locals of the call are gone.
Return(me, list, err) ==
    [IdleProc EXCEPT !.pc = "done", !.ret = [indexes |-> list, err |-> err]]

\* A resolver that keeps the pin marker in the name.
ResolveKeepMarker(me) ==
    IF me.i > Len(me.repos)
    THEN Return(me, me.out, NoErr)
    ELSE LET repo == me.repos[me.i]
             pinned == HasPrefix(repo, "@")
             parts == Fields(repo)
         IN  IF pinned /\ Len(parts) < 2
             THEN Return(me, <<>>, [E("invalid repository line") EXCEPT !.u = repo])
             ELSE LET repoName == IF pinned THEN parts[1] ELSE <<>>
                      repoURL == IF pinned THEN parts[2] ELSE repo
                      u == IndexURL(repoURL, Arch)
                  IN  [me EXCEPT !.name = repoName,
                                 !.base = RepoBase(repoURL, Arch),
                                 !.u = u,
                                 !.res = Absent,
                                 !.pc = IF HasPrefix(u, "https://")
                                        THEN "once" ELSE "lock"]

\* Lines 129-148 and 69: the loop head.  Resolve line i and enter get on its
\* index URL, or return when the lines are exhausted or line i is malformed.
Resolve(me) ==
    IF me.i > Len(me.repos)
    THEN Return(me, me.out, NoErr)
    ELSE LET repo == me.repos[me.i]
             pinned == HasPrefix(repo, "@")
             parts == Fields(repo)
         IN  IF pinned /\ Len(parts) < 2
             THEN Return(me, <<>>, [E("invalid repository line") EXCEPT !.u = repo])
             ELSE LET repoName == IF pinned THEN Tail(parts[1]) ELSE <<>>
                      repoURL == IF pinned THEN parts[2] ELSE repo
                      u == IndexURL(repoURL, Arch)
                  IN  [me EXCEPT !.name = repoName,
                                 !.base = RepoBase(repoURL, Arch),
                                 !.u = u,
                                 !.res = Absent,
                                 !.pc = IF HasPrefix(u, "https://")
                                        THEN "once" ELSE "lock"]

\* Lines 120-148: a caller enters GetRepositoryIndexes and reaches the first
\* get (or returns at once).
Call(p, lists, modes) ==
    /\ procs[p].pc \in {"idle", "done"}
    /\ calls < MaxCalls
    /\ \E repos \in lists, m \in modes :
          Set(p, Resolve([IdleProc EXCEPT !.repos = repos, !.keys = m.keys,
                                          !.opts = m.opts, !.i = 1]))
    /\ calls' = calls + 1
    /\ UNCHANGED <<onces, mutex, modtimes, indexes, fs, fetches, fx>>

\* A Do that lets a second caller in while the function is running.
OnceDoNoWait(p) ==
    LET me == procs[p] IN
    /\ me.pc = "once"
    /\ IF onces[me.u] # "done"
       THEN /\ onces' = [onces EXCEPT ![me.u] = "running"]
            /\ Set(p, [me EXCEPT !.pc = "fetch"])
       ELSE /\ UNCHANGED onces
            /\ Set(p, [me EXCEPT !.pc = "lookup"])
    /\ UNCHANGED <<mutex, modtimes, indexes, fs, fetches, calls, fx>>

\* Lines 71-72: LoadOrStore the URL's Once and enter Do.  A caller that finds
\* the function running waits; one that finds it done goes on.
OnceDo(p) ==
    LET me == procs[p] IN
    /\ me.pc = "once"
    /\ onces[me.u] # "running"
    /\ IF onces[me.u] = "absent"
       THEN /\ onces' = [onces EXCEPT ![me.u] = "running"]
            /\ Set(p, [me EXCEPT !.pc = "fetch"])
       ELSE /\ UNCHANGED onces
            /\ Set(p, [me EXCEPT !.pc = "lookup"])
    /\ UNCHANGED <<mutex, modtimes, indexes, fs, fetches, calls, fx>>

\* What the server can answer.
RemoteWorlds ==
    {World(TRUE, "https", "ok", "ok", http_StatusOK, "ok", "signed_k1"),
     World(TRUE, "https", "ok", "ok", http_StatusOK, "ok", "signed_k3"),
     World(TRUE, "https", "ok", "ok", http_StatusNotFound, "ok", "none")}

\* Lines 200-216: the request carries the ctx of the caller that runs the
\* function, and the transport fails a request whose ctx is cancelled.
RemoteAnswers(me) ==
    IF me.ctx = "cancelled"
    THEN {World(TRUE, "https", "ok", "error", 0, "ok", "none")}
    ELSE RemoteWorlds

Count(n) == IF n < MaxFetches THEN n + 1 ELSE n

\* Lines 73-77: the function given to Do.
RemoteFetch(p) ==
    LET me == procs[p] IN
    /\ me.pc = "fetch"
    /\ \E w \in RemoteAnswers(me) :
          indexes' = [indexes EXCEPT ![me.u] =
                         getRepositoryIndex(me.u, me.keys, Arch, me.opts, w)]
    /\ fetches' = [fetches EXCEPT ![me.u] = Count(@)]
    /\ Set(p, [me EXCEPT !.pc = "fin"])
    /\ UNCHANGED <<onces, mutex, modtimes, fs, calls, fx>>

\* A Once that does not remember that it ran.
OnceDoneForget(p) ==
    LET me == procs[p] IN
    /\ me.pc = "fin"
    /\ onces' = [onces EXCEPT ![me.u] = "absent"]
    /\ Set(p, [me EXCEPT !.pc = "lookup"])
    /\ UNCHANGED <<mutex, modtimes, indexes, fs, fetches, calls, fx>>

\* Line 78: Do returns; the Once is done.
OnceDone(p) ==
    LET me == procs[p] IN
    /\ me.pc = "fin"
    /\ onces' = [onces EXCEPT ![me.u] = "done"]
    /\ Set(p, [me EXCEPT !.pc = "lookup"])
    /\ UNCHANGED <<mutex, modtimes, indexes, fs, fetches, calls, fx>>

\* A Lock that does not wait for the holder to leave.
LockNoWait(p) ==
    LET me == procs[p] IN
    /\ me.pc = "lock"
    /\ mutex' = p
    /\ Set(p, [me EXCEPT !.pc = "stat"])
    /\ UNCHANGED <<onces, modtimes, indexes, fs, fetches, calls, fx>>

\* Line 80
Lock(p) ==
    LET me == procs[p] IN
    /\ me.pc = "lock"
    /\ mutex = NoProc
    /\ mutex' = p
    /\ Set(p, [me EXCEPT !.pc = "stat"])
    /\ UNCHANGED <<onces, modtimes, indexes, fs, fetches, calls, fx>>

\* A comparison that recomputes whenever the modification time differs.
Differs(t, before) == t # before

\* A comparison that also recomputes on an equal modification time.
NotBefore(t, before) == t >= before

\* time.Time.After
After(t, before) == t > before

\* Lines 90-91
NeedsFetch(u, mod) == modtimes[u] = NoTime \/ After(mod, modtimes[u])

\* A stat whose early return leaves the lock held.
StatKeepLock(p) ==
    LET me == procs[p] IN
    /\ me.pc = "stat"
    /\ IF ~fs[me.u].exists
       THEN Set(p, [me EXCEPT !.pc = "back", !.res = indexResult(NilIdx, NoErr)])
       ELSE Set(p, [me EXCEPT !.mod = fs[me.u].mtime,
                              !.pc = IF NeedsFetch(me.u, fs[me.u].mtime)
                                     THEN "lfetch" ELSE "lookup"])
    /\ UNCHANGED <<onces, mutex, modtimes, indexes, fs, fetches, calls, fx>>

\* Lines 84-91 (and 81 on the early return)
Stat(p) ==
    LET me == procs[p] IN
    /\ me.pc = "stat"
    /\ IF ~fs[me.u].exists
       THEN /\ Set(p, [me EXCEPT !.pc = "back", !.res = indexResult(NilIdx, NoErr)])
            /\ mutex' = NoProc
       ELSE /\ Set(p, [me EXCEPT !.mod = fs[me.u].mtime,
                                 !.pc = IF NeedsFetch(me.u, fs[me.u].mtime)
                                        THEN "lfetch" ELSE "lookup"])
            /\ UNCHANGED mutex
    /\ UNCHANGED <<onces, modtimes, indexes, fs, fetches, calls, fx>>

\* What os.ReadFile can answer for the path now.
LocalWorlds(u) ==
    {World(TRUE, "file", rd, "ok", 0, "ok", fs[u].b) :
        rd \in IF fs[u].exists THEN {"ok", "error"} ELSE {"notexist"}}

\* A recompute that records the modification time but keeps an empty outcome
\* out of the store.
LocalFetchSkipEmpty(p) ==
    LET me == procs[p] IN
    /\ me.pc = "lfetch"
    /\ \E w \in LocalWorlds(me.u) :
          LET r == getRepositoryIndex(me.u, me.keys, Arch, me.opts, w)
          IN  indexes' = IF r = indexResult(NilIdx, NoErr)
                         THEN indexes
                         ELSE [indexes EXCEPT ![me.u] = r]
    /\ modtimes' = [modtimes EXCEPT ![me.u] = me.mod]
    /\ Set(p, [me EXCEPT !.pc = "lookup"])
    /\ UNCHANGED <<onces, mutex, fs, fetches, calls, fx>>

\* Lines 93-98
LocalFetch(p) ==
    LET me == procs[p] IN
    /\ me.pc = "lfetch"
    /\ \E w \in LocalWorlds(me.u) :
          indexes' = [indexes EXCEPT ![me.u] =
                         getRepositoryIndex(me.u, me.keys, Arch, me.opts, w)]
    /\ modtimes' = [modtimes EXCEPT ![me.u] = me.mod]
    /\ Set(p, [me EXCEPT !.pc = "lookup"])
    /\ UNCHANGED <<onces, mutex, fs, fetches, calls, fx>>

\* Lines 102-108 (and 81): load the entry, return it, release the lock.
Lookup(p) ==
    LET me == procs[p] IN
    /\ me.pc = "lookup"
    /\ IF indexes[me.u] = Absent
       THEN Set(p, [me EXCEPT !.pc = "panic", !.mod = NoTime])
       ELSE Set(p, [me EXCEPT !.pc = "back", !.res = indexes[me.u], !.mod = NoTime])
    /\ mutex' = IF mutex = p THEN NoProc ELSE mutex
    /\ UNCHANGED <<onces, modtimes, indexes, fs, fetches, calls, fx>>

NamedIndex(name, base, idx) == [name |-> name, uri |-> base, index |-> idx]

\* A loop that skips a failing line and goes on.
ContinueBestEffort(p) ==
    LET me == procs[p] IN
    /\ me.pc = "back"
    /\ IF me.res.err # NoErr \/ me.res.idx = NilIdx
       THEN Set(p, Resolve([me EXCEPT !.i = @ + 1]))
       ELSE Set(p, Resolve([me EXCEPT !.i = @ + 1,
                                      !.out = Append(@, NamedIndex(me.name, me.base,
                                                                   me.res.idx))]))
    /\ UNCHANGED <<onces, mutex, modtimes, indexes, fs, fetches, calls, fx>>

\* Lines 148-160, then the loop head again: back in the loop with get's result.
Continue(p) ==
    LET me == procs[p] IN
    /\ me.pc = "back"
    /\ IF me.res.err # NoErr
       THEN Set(p, Return(me, <<>>, me.res.err))
       ELSE IF me.res.idx = NilIdx
       THEN Set(p, Resolve([me EXCEPT !.i = @ + 1]))
       ELSE Set(p, Resolve([me EXCEPT !.i = @ + 1,
                                      !.out = Append(@, NamedIndex(me.name, me.base,
                                                                   me.res.idx))]))
    /\ UNCHANGED <<onces, mutex, modtimes, indexes, fs, fetches, calls, fx>>

-----------------------------------------------------------------------------
(* The filesystem changes under the program *)

LocalBytes == {"signed_k1"}

WriteFile(u) ==
    /\ \E t \in 1..MaxTime, b \in LocalBytes : fs' = [fs EXCEPT ![u] = File(t, b)]
    /\ UNCHANGED <<onces, mutex, modtimes, indexes, procs, fetches, calls, fx>>

RemoveFile(u) ==
    /\ fs[u].exists
    /\ fs' = [fs EXCEPT ![u] = NoFile]
    /\ UNCHANGED <<onces, mutex, modtimes, indexes, procs, fetches, calls, fx>>

-----------------------------------------------------------------------------
(* Specification of the cache under concurrent callers *)

Mode(keys, ign) == [keys |-> keys, opts |-> indexOpts(ign)]

UnitLists == {<<RepoRemote>>, <<RepoLocal>>}

CacheModes == {Mode(KeysK1, FALSE), Mode(KeysK2, TRUE)}

Next ==
    \/ \E p \in Procs : Call(p, UnitLists, CacheModes)
    \/ \E p \in Procs : OnceDo(p)
    \/ \E p \in Procs : RemoteFetch(p)
    \/ \E p \in Procs : OnceDone(p)
    \/ \E p \in Procs : Lock(p)
    \/ \E p \in Procs : Stat(p)
    \/ \E p \in Procs : LocalFetch(p)
    \/ \E p \in Procs : Lookup(p)
    \/ \E p \in Procs : Continue(p)
    \/ \E u \in Files : WriteFile(u)
    \/ \E u \in Files : RemoveFile(u)

Spec == Init /\ [][Next]_vars

-----------------------------------------------------------------------------
(* Specification of the cache under callers that cancel their contexts *)

\* Line 120: the ctx of a call that has not returned is cancelled.
Cancel(p) ==
    LET me == procs[p] IN
    /\ me.pc \notin {"idle", "done", "panic"}
    /\ me.ctx = "live"
    /\ Set(p, [me EXCEPT !.ctx = "cancelled"])
    /\ UNCHANGED <<onces, mutex, modtimes, indexes, fs, fetches, calls, fx>>

NextCancel ==
    \/ Next
    \/ \E p \in Procs : Cancel(p)

SpecCancel == Init /\ [][NextCancel]_vars

-----------------------------------------------------------------------------
(* Specification of the cache under concurrent callers of local paths *)

LocalLists == {<<RepoLocal>>, <<RepoHTTP>>}

NextLocal ==
    \/ \E p \in Procs : Call(p, LocalLists, CacheModes)
    \/ \E p \in Procs : Lock(p)
    \/ \E p \in Procs : Stat(p)
    \/ \E p \in Procs : LocalFetch(p)
    \/ \E p \in Procs : Lookup(p)
    \/ \E p \in Procs : Continue(p)
    \/ \E u \in Files : WriteFile(u)
    \/ \E u \in Files : RemoveFile(u)

SpecLocal == Init /\ [][NextLocal]_vars

-----------------------------------------------------------------------------
(* Specification of the cache under fair scheduling of the callers *)

\* The callers of a remote URL, of a local path that has a file and of a local
\* path that has none.
LiveLists == {<<RepoRemote>>, <<RepoLocal>>, <<RepoHTTP>>}

LiveModes == {Mode(KeysK1, FALSE)}

\* The cache before any call, on a filesystem that holds the file of the
\* local repository until somebody removes it.
InitLive ==
    /\ onces = [u \in RemoteURLs |-> "absent"]
    /\ mutex = NoProc
    /\ modtimes = [u \in URLs |-> NoTime]
    /\ indexes = [u \in URLs |-> Absent]
    /\ fs = [u \in LocalURLs |-> IF u \in Files THEN File(1, "signed_k1") ELSE NoFile]
    /\ procs = [p \in Procs |-> IdleProc]
    /\ fetches = [u \in RemoteURLs |-> 0]
    /\ calls = 0
    /\ fx = FxIdle

NextLive ==
    \/ \E p \in Procs : Call(p, LiveLists, LiveModes)
    \/ \E p \in Procs : OnceDo(p)
    \/ \E p \in Procs : RemoteFetch(p)
    \/ \E p \in Procs : OnceDone(p)
    \/ \E p \in Procs : Lock(p)
    \/ \E p \in Procs : Stat(p)
    \/ \E p \in Procs : LocalFetch(p)
    \/ \E p \in Procs : Lookup(p)
    \/ \E p \in Procs : Continue(p)
    \/ \E u \in Files : RemoveFile(u)

\* A step of caller p inside get (lines 68-108); its position enables at most
\* one of them.
GetStep(p) ==
    \/ OnceDo(p)
    \/ RemoteFetch(p)
    \/ OnceDone(p)
    \/ Lock(p)
    \/ Stat(p)
    \/ LocalFetch(p)
    \/ Lookup(p)

\* A step of get that stays possible is taken: the goroutines are scheduled
\* and the computations return.
SpecLive ==
    /\ InitLive /\ [][NextLive]_vars
    /\ \A p \in Procs : WF_vars(GetStep(p))

-----------------------------------------------------------------------------
(* Specification of one caller resolving lists of repository lines *)

Lines == {RepoRemote, RepoPinned, RepoLocal, RepoHTTP, RepoBadPin}

BatchLists == UNION {[1..n -> Lines] : n \in 0..MaxLines}

Caller == 1

NextBatch ==
    \/ Call(Caller, BatchLists, CacheModes)
    \/ OnceDo(Caller)
    \/ RemoteFetch(Caller)
    \/ OnceDone(Caller)
    \/ Lock(Caller)
    \/ Stat(Caller)
    \/ LocalFetch(Caller)
    \/ Lookup(Caller)
    \/ Continue(Caller)
    \/ \E u \in Files : WriteFile(u)
    \/ \E u \in Files : RemoveFile(u)

SpecBatch == Init /\ [][NextBatch]_vars

-----------------------------------------------------------------------------
(* Specification of one fetch+verify+decode computation on every input *)

FetchURLs == {IndexURL(RepoRemote, Arch), IndexURL(RepoLocal, Arch),
              IndexURL(RepoHTTP, Arch)}

\* Every answer of the world that takes a different path through the
\* computation.  A string that carries a scheme other than https may come out
\* of the URI normalisation as a file URL or with its own scheme.
FetchWorlds(u) ==
    IF HasPrefix(u, "https://")
    THEN {World(FALSE, "https", "ok", "ok", 0, "ok", "none"),
          World(TRUE, "https", "ok", "error", 0, "ok", "none"),
          World(TRUE, "https", "ok", "ok", http_StatusNotFound, "ok", "none"),
          World(TRUE, "https", "ok", "ok", 500, "ok", "none"),
          World(TRUE, "https", "ok", "ok", http_StatusOK, "error", "none")}
         \cup {World(TRUE, "https", "ok", "ok", http_StatusOK, "ok", b) : b \in AllBytes}
    ELSE {World(FALSE, "file", "ok", "ok", 0, "ok", "none"),
          World(TRUE, "file", "error", "ok", 0, "ok", "none"),
          World(TRUE, "file", "notexist", "ok", 0, "ok", "none")}
         \cup {World(TRUE, "file", "ok", "ok", 0, "ok", b) : b \in AllBytes}
         \cup (IF HasPrefix(u, "http://")
               THEN {World(TRUE, "http", "ok", "ok", 0, "ok", "none")}
               ELSE {})

InitFetch ==
    /\ InitCache
    /\ \E u \in FetchURLs, keys \in AllTrustSets, ign \in BOOLEAN :
          \E w \in FetchWorlds(u) :
             fx = [pc |-> "ready", u |-> u, keys |-> keys, opts |-> indexOpts(ign),
                   w |-> w, out |-> Fail(NoErr, <<>>)]

Fetch ==
    /\ fx.pc = "ready"
    /\ fx' = [fx EXCEPT !.pc = "done",
                        !.out = getRepositoryIndexFull(fx.u, fx.keys, Arch,
                                                       fx.opts, fx.w)]
    /\ UNCHANGED <<onces, mutex, modtimes, indexes, fs, procs, fetches, calls>>

\* Lines 74-77 and 94-97: get stores what the computation returned.
Store ==
    /\ fx.pc = "done"
    /\ indexes' = [indexes EXCEPT ![fx.u] = indexResult(fx.out.idx, fx.out.err)]
    /\ fx' = [fx EXCEPT !.pc = "stored"]
    /\ UNCHANGED <<onces, mutex, modtimes, fs, procs, fetches, calls>>

NextFetch == Fetch \/ Store

SpecFetch == InitFetch /\ [][NextFetch]_vars

-----------------------------------------------------------------------------
(* Claims about the cache *)

IsRemote(u) == u \in RemoteURLs

IsLocal(u) == u \in LocalURLs

\* C1 (single-flight): for an https URL the computation runs at most once; a
\* caller is past Do only when it has run, finished and stored its outcome;
\* every caller returns the stored pair, so any two callers return the same.
C1_SingleFlight ==
    \A u \in RemoteURLs :
       /\ fetches[u] <= 1
       /\ \A p \in Procs :
             (procs[p].u = u /\ procs[p].pc \in {"lookup", "back"})
                => /\ fetches[u] = 1
                   /\ onces[u] = "done"
                   /\ indexes[u] # Absent
       /\ \A p \in Procs :
             (procs[p].u = u /\ procs[p].pc = "back") => procs[p].res = indexes[u]
       /\ \A p, q \in Procs :
             (procs[p].u = u /\ procs[p].pc = "back" /\
              procs[q].u = u /\ procs[q].pc = "back") => procs[p].res = procs[q].res

\* Two callers with different keys and options have both returned from get
\* on the same https URL, with an index.
C1_Witness ==
    \E p, q \in Procs :
       /\ p # q
       /\ procs[p].pc = "back" /\ procs[q].pc = "back"
       /\ procs[p].u = procs[q].u /\ IsRemote(procs[p].u)
       /\ procs[p].keys # procs[q].keys
       /\ procs[p].res.idx # NilIdx

\* C2 (remote permanence): once an outcome is stored for an https URL, no step
\* changes it.
C2_RemotePermanence ==
    [][\A u \in RemoteURLs : indexes[u] # Absent => indexes'[u] = indexes[u]]_vars

\* A caller that verifies signatures enters get on an https URL whose stored
\* outcome was computed by a call that ignored them.
C2_Witness ==
    \E p \in Procs :
       /\ procs[p].pc = "once" /\ IsRemote(procs[p].u)
       /\ indexes[procs[p].u].idx = [from |-> "signed_k3"]
       /\ ~procs[p].opts.ignoreSignatures

\* C3 (local revalidation): on a path that exists, the stat is followed by a
\* recompute exactly when no modification time is recorded or the file's is
\* strictly after the recorded one; otherwise the stored outcome is what get
\* returns; a recompute records the modification time the stat observed; and
\* the outcome of a local path changes in no other step.
C3_LocalRevalidation ==
    [][/\ \A p \in Procs :
             LET me == procs[p]
                 nx == procs'[p]
             IN  /\ (me.pc = "stat" /\ nx.pc # "stat" /\ fs[me.u].exists)
                       => /\ nx.pc \in {"lfetch", "lookup"}
                          /\ nx.mod = fs[me.u].mtime
                          /\ ((nx.pc = "lfetch") <=>
                                 (\/ modtimes[me.u] = NoTime
                                  \/ fs[me.u].mtime > modtimes[me.u]))
                          /\ indexes' = indexes /\ modtimes' = modtimes
                 /\ (me.pc = "lfetch" /\ nx.pc # "lfetch")
                       => /\ modtimes'[me.u] = me.mod
                          /\ nx.pc = "lookup"
                 /\ (me.pc = "lookup" /\ nx.pc # "lookup" /\ IsLocal(me.u))
                       => /\ nx.pc = "back"
                          /\ nx.res = indexes[me.u]
                          /\ indexes' = indexes /\ modtimes' = modtimes
       /\ \A u \in LocalURLs :
             (indexes'[u] # indexes[u] \/ modtimes'[u] # modtimes[u])
                => \E q \in Procs : /\ procs[q].pc = "lfetch" /\ procs[q].u = u
                                    /\ procs'[q].pc = "lookup"
      ]_vars

\* A caller is about to recompute a path whose recorded modification time is
\* older than the one it has just observed.
C3_Witness ==
    \E p \in Procs :
       /\ procs[p].pc = "lfetch"
       /\ modtimes[procs[p].u] # NoTime
       /\ procs[p].mod > modtimes[procs[p].u]

\* C4 (non-existent local path), as claimed: in every reachable state,
\* including after the file is removed between the stat and the read of one
\* access, the empty outcome (nil, nil) is stored for no local path.
C4_NoEmptyOutcomeStored ==
    \A u \in LocalURLs : indexes[u] # indexResult(NilIdx, NoErr)

\* Some key of the trust set validates the signature of the bytes the index
\* was decoded from.
ValidatedBy(idx, keys) ==
    LET c == Container(idx.from)
    IN  \E e \in keys.m : RSAVerifySHA1Digest(HashData(c.data), c.sig, e.data)

\* C5 (authenticated results only), as claimed: an index returned by get to a
\* call that verifies signatures was validated by a key of that call's trust
\* set, also when the outcome was stored by an earlier call.
C5_AuthenticatedOnly ==
    \A p \in Procs :
       (procs[p].pc = "back" /\ ~procs[p].opts.ignoreSignatures
           /\ procs[p].res.idx # NilIdx)
          => ValidatedBy(procs[p].res.idx, procs[p].keys)

-----------------------------------------------------------------------------
(* Claims about the orchestrator *)

\* C6 (unsupported schemes), as claimed: a get on a URL whose scheme is http
\* returns the "scheme not supported" error naming the scheme.
C6_UnsupportedSchemeRejected ==
    \A p \in Procs :
       (procs[p].pc = "back" /\ HasPrefix(procs[p].u, "http://"))
          => /\ procs[p].res.err.kind = "repository scheme not supported"
             /\ procs[p].res.err.scheme = "http"

\* C7 (fail-fast batch): when get returns an error the caller's next step is
\* the return of GetRepositoryIndexes, with an empty list and that very error,
\* and the step touches nothing of the cache; no return carries both an error
\* and a list; a caller that has returned does nothing but start a new call.
C7_FailFast ==
    [][\A p \in Procs :
          LET me == procs[p]
              nx == procs'[p]
          IN  /\ (me.pc = "back" /\ me.res.err # NoErr /\ nx # me)
                    => /\ nx.pc = "done"
                       /\ nx.ret = [indexes |-> <<>>, err |-> me.res.err]
                       /\ UNCHANGED <<onces, mutex, modtimes, indexes, fetches>>
              /\ (nx.pc = "done" /\ nx.ret.err # NoErr) => nx.ret.indexes = <<>>
              /\ (me.pc = "done" /\ nx # me) => calls' = calls + 1
      ]_vars

\* get has returned an error for a line that is not the last of the list.
C7_Witness ==
    \E p \in Procs :
       /\ procs[p].pc = "back"
       /\ procs[p].res.err # NoErr
       /\ procs[p].i < Len(procs[p].repos)

\* The pin name and the repository identifier each line is to produce.
ExpectedPin(line) ==
    CASE line = RepoPinned -> <<"corp">>
      [] OTHER -> <<>>

ExpectedBase(line) ==
    CASE line = RepoPinned -> <<"https://", "r.test/main", "/", "x86_64">>
      [] line = RepoRemote -> <<"https://", "r.test/main", "/", "x86_64">>
      [] line = RepoLocal -> <<"/", "srv/repo", "/", "x86_64">>
      [] line = RepoHTTP -> <<"http://", "h.test/main", "/", "x86_64">>
      [] OTHER -> <<>>

\* C8 (ordered output with silent skip): the list starts empty; each line whose
\* get returned a non-nil index without error appends exactly one NamedIndex
\* with the line's pin name and repository identifier; a line whose get
\* returned (nil, nil) appends nothing; no other step changes the list; and
\* the list returned after the last line is the list so built.
C8_OrderedOutput ==
    [][\A p \in Procs :
          LET me == procs[p]
              nx == procs'[p]
              line == me.repos[me.i]
              new == IF me.res.idx = NilIdx
                     THEN me.out
                     ELSE Append(me.out, [name |-> ExpectedPin(line),
                                          uri |-> ExpectedBase(line),
                                          index |-> me.res.idx])
          IN  /\ (me.pc \in {"idle", "done"} /\ nx.pc \notin {"idle", "done"})
                    => nx.out = <<>> /\ nx.i = 1
              /\ (me.pc \notin {"idle", "done", "back"} /\ nx.pc # "done")
                    => (nx.out = me.out /\ nx.i = me.i /\ nx.repos = me.repos)
              /\ (me.pc = "back" /\ me.res.err = NoErr /\ nx # me)
                    => IF me.i = Len(me.repos)
                       THEN nx.pc = "done" /\ nx.ret = [indexes |-> new, err |-> NoErr]
                       ELSE \/ nx.pc = "done" /\ nx.ret.err.kind = "invalid repository line"
                            \/ /\ nx.pc \in {"once", "lock"}
                               /\ nx.out = new /\ nx.i = me.i + 1
                               /\ nx.repos = me.repos
      ]_vars

\* A call has returned two indexes, the first under the pin name "corp", the
\* second without a pin name.
C8_Witness ==
    \E p \in Procs :
       /\ procs[p].pc = "done"
       /\ procs[p].ret.err = NoErr
       /\ Len(procs[p].ret.indexes) = 2
       /\ procs[p].ret.indexes[1].name = <<"corp">>
       /\ procs[p].ret.indexes[2].name = <<>>

-----------------------------------------------------------------------------
(* Claims about the fetch+verify+decode computation *)

FetchDone == fx.pc = "done"

\* The computation got as far as the key check / the trust-set check.
ReachedKeys == Len(fx.out.verify) = 7

ReachedTrust == Len(fx.out.verify) >= 6

SomeKeyValidates ==
    \E e \in fx.keys.m :
       RSAVerifySHA1Digest(HashData(Container(fx.w.b).data), Container(fx.w.b).sig,
                           e.data)

ExpectedKeyName == SubSeq(Container(fx.w.b).first, 2, Len(Container(fx.w.b).first))

\* C9 (exhaustive key fallback): with verification enabled and a non-empty
\* trust set, the key check succeeds exactly when some key of the set
\* validates the signature over the payload digest.
C9_ExhaustiveFallback ==
    (FetchDone /\ ~fx.opts.ignoreSignatures /\ fx.keys.m # {} /\ ReachedKeys)
       => ((fx.out.err.kind # "no key found to verify signature") <=> SomeKeyValidates)

\* The signature file names key k1, the trust set holds k1 and k2, only k2
\* validates, and the computation yields an index.
C9_Witness ==
    /\ FetchDone /\ ~fx.opts.ignoreSignatures
    /\ fx.w.b = "signed_alias" /\ fx.keys = KeysK1K2
    /\ fx.out.idx # NilIdx

\* C10 (trust errors distinguished), as claimed: with verification enabled, an
\* unset or empty trust set fails with "no keys provided", and a non-empty one
\* in which no key validates fails with another error naming the expected key.
C10_TrustErrors ==
    (FetchDone /\ ~fx.opts.ignoreSignatures /\ ReachedTrust)
       => /\ (fx.keys.isNil \/ fx.keys.m = {})
                => fx.out.err.kind = "no keys provided to verify signature"
          /\ (fx.keys.m # {} /\ ~SomeKeyValidates)
                => /\ fx.out.err.kind = "no key found to verify signature"
                   /\ fx.out.err.name = ExpectedKeyName

-----------------------------------------------------------------------------
(* Claims about what the computation verifies and what it decodes *)

\* The computation has the bytes in hand (lines 186-192 or 213-230 passed).
GotBytes ==
    /\ fx.w.parse
    /\ IF HasPrefix(fx.u, "https://")
       THEN fx.w.rt = "ok" /\ fx.w.status = http_StatusOK /\ fx.w.copy = "ok"
       ELSE fx.w.scheme = "file" /\ fx.w.read = "ok"

Verifies == GotBytes /\ ~fx.opts.ignoreSignatures

VerifiedOk == Verifies /\ Verify(fx.w.b, fx.keys).err = NoErr

\* The bytes over which the digest is computed (lines 269-274).
DigestedBytes == Container(fx.w.b).data

\* C11 (decoder input), as claimed: the decoder is invoked at most once; after
\* a successful verification it is invoked exactly once, on exactly the bytes
\* the digest was computed over; with verification skipped it is invoked on the
\* raw fetched bytes; it is not invoked when the fetch or the verification fails.
C11_DecoderInput ==
    FetchDone
       => /\ Len(fx.out.decoded) <= 1
          /\ VerifiedOk => fx.out.decoded = <<DigestedBytes>>
          /\ (GotBytes /\ fx.opts.ignoreSignatures) => fx.out.decoded = <<fx.w.b>>
          /\ (~GotBytes \/ (Verifies /\ ~VerifiedOk)) => fx.out.decoded = <<>>

\* C12 (bypass): a computation that runs with ignoreSignatures=true and has the
\* bytes in hand executes no verification step, whatever the trust set is, and
\* its outcome is the decoder's outcome on the raw fetched bytes: the decoder's
\* index and no error, or no index and the decode error naming the URL.
C12_Bypass ==
    (FetchDone /\ GotBytes /\ fx.opts.ignoreSignatures)
       => /\ fx.out.verify = <<>>
          /\ fx.out.decoded = <<fx.w.b>>
          /\ fx.out.idx = IndexFromArchive(fx.w.b).idx
          /\ IF IndexFromArchive(fx.w.b).ok
             THEN fx.out.err = NoErr
             ELSE fx.out.err = [E("unable to read convert repository index bytes")
                                    EXCEPT !.u = fx.u]

\* An unsigned archive fetched with verification off and no trust set yields
\* the index decoded from it.
C12_Witness ==
    /\ FetchDone /\ fx.opts.ignoreSignatures /\ fx.keys = KeysNil
    /\ fx.w.b = "unsigned"
    /\ fx.out.idx = [from |-> "unsigned"]
    /\ fx.out.err = NoErr

\* The transport has answered an https request with a response.
HttpsAnswered == HasPrefix(fx.u, "https://") /\ fx.w.parse /\ fx.w.rt = "ok"

\* C15 (HTTP status mapping): for an https fetch, a 200 response whose body is
\* read goes on to verification (unless bypassed) and decode; a 404 response
\* yields the error naming the architecture and the URL; every other status
\* yields the error carrying the numeric status code; in the two error cases no
\* verification step and no decode is performed, and the error is the outcome
\* stored for the URL.
C15_StatusMapping ==
    (fx.pc \in {"done", "stored"} /\ HttpsAnswered)
       => /\ (fx.w.status = http_StatusOK /\ fx.w.copy = "ok")
                => /\ fx.opts.ignoreSignatures => fx.out.decoded = <<fx.w.b>>
                   /\ ~fx.opts.ignoreSignatures => fx.out.verify # <<>>
                   /\ fx.out.err.kind \notin {"repository index not found for architecture",
                                              "unexpected status code"}
          /\ fx.w.status = http_StatusNotFound
                => fx.out.err = [E("repository index not found for architecture")
                                     EXCEPT !.arch = Arch, !.u = fx.u]
          /\ fx.w.status \notin {http_StatusOK, http_StatusNotFound}
                => fx.out.err = [E("unexpected status code")
                                     EXCEPT !.code = fx.w.status, !.arch = Arch,
                                            !.u = fx.u]
          /\ fx.w.status # http_StatusOK
                => /\ fx.out.verify = <<>>
                   /\ fx.out.decoded = <<>>
                   /\ fx.out.idx = NilIdx
                   /\ fx.pc = "stored"
                         => indexes[fx.u] = indexResult(NilIdx, fx.out.err)

\* A 404 answer has been mapped to its error and stored for the URL.
C15_Witness ==
    /\ fx.pc = "stored" /\ HttpsAnswered
    /\ fx.w.status = http_StatusNotFound
    /\ indexes[fx.u].err.kind = "repository index not found for architecture"
    /\ indexes[fx.u].err.arch = Arch

-----------------------------------------------------------------------------
(* Claims about cancellation, the orchestrator and the locks *)

\* The outcomes the computation for u has when nobody cancels.
UncancelledOutcomes(u) ==
    {getRepositoryIndex(u, m.keys, Arch, m.opts, w) :
        m \in CacheModes, w \in RemoteWorlds}

\* C13 (cancellation isolation), as claimed: whichever caller of a remote URL
\* cancels its context, a caller that has not cancelled gets from get an
\* outcome that the computation has when nobody cancels.
C13_CancellationIsolation ==
    \A p \in Procs :
       (procs[p].pc = "back" /\ IsRemote(procs[p].u) /\ procs[p].ctx = "live")
          => procs[p].res \in UncancelledOutcomes(procs[p].u)

\* Line 138: a pinned line without a URL token.
Malformed(repo) == HasPrefix(repo, "@") /\ Len(Fields(repo)) < 2

HasMalformed(repos) == \E j \in 1..Len(repos) : Malformed(repos[j])

ParseError(repo) ==
    [indexes |-> <<>>, err |-> [E("invalid repository line") EXCEPT !.u = repo]]

\* The positions of a caller inside get.
InGet == {"once", "fetch", "fin", "lock", "stat", "lfetch", "lookup"}

\* A call as it enters the loop (lines 120-129).
Entry(repos, m) ==
    [IdleProc EXCEPT !.repos = repos, !.keys = m.keys, !.opts = m.opts, !.i = 1]

\* C14 (malformed pin), as claimed: a call whose list contains a malformed
\* pinned line performs no fetch before it returns.
C14_MalformedPin ==
    \A p \in Procs : HasMalformed(procs[p].repos) => procs[p].pc # "fin"

\* C14 (malformed pin), amended: the lines are taken in order.  A call whose
\* first line is a malformed pin returns at once the parse error naming the
\* line, with a nil list; a call that reaches a malformed pin after the lines
\* before it have been got without error returns the same way; the step that
\* returns a parse error touches nothing of the cache; and no get is entered
\* for a malformed line or for any line after it.
C14_MalformedPinInOrder ==
    /\ \A repos \in BatchLists, m \in CacheModes :
          (repos # <<>> /\ Malformed(repos[1]))
             => /\ Resolve(Entry(repos, m)).pc = "done"
                /\ Resolve(Entry(repos, m)).ret = ParseError(repos[1])
    /\ [][\A p \in Procs :
            LET me == procs[p]
                nx == procs'[p]
            IN  /\ (/\ me.pc = "back" /\ nx # me /\ me.res.err = NoErr
                    /\ me.i < Len(me.repos) /\ Malformed(me.repos[me.i + 1]))
                      => (nx.pc = "done" /\ nx.ret = ParseError(me.repos[me.i + 1]))
                /\ (/\ nx.pc = "done"
                    /\ nx.ret.err.kind = "invalid repository line"
                    /\ (calls' # calls \/ me.pc = "back"))
                      => /\ nx.ret = ParseError(nx.ret.err.u)
                         /\ Malformed(nx.ret.err.u)
                         /\ UNCHANGED <<onces, mutex, modtimes, indexes, fetches>>
                /\ nx.pc \in InGet
                      => \A j \in 1..nx.i : ~Malformed(nx.repos[j])
       ]_vars

\* One call has fetched its first line from the network and has then returned
\* the parse error for its second.
C14_Witness ==
    /\ calls = 1
    /\ procs[Caller].pc = "done"
    /\ procs[Caller].ret = ParseError(RepoBadPin)
    /\ \E u \in RemoteURLs : fetches[u] = 1

\* C16 (the post-branch assertion never fires): whenever a caller is at the
\* lookup after the remote or the local branch, the index store holds an entry
\* for its URL, and no caller ever reaches the panic of line 104.
C16_NoPanic ==
    \A p \in Procs :
       /\ procs[p].pc = "lookup" => indexes[procs[p].u] # Absent
       /\ procs[p].pc # "panic"

\* A remote caller and a local caller are at the lookup at the same time, the
\* local one on a path whose file is gone again.
C16_Witness ==
    \E p, q \in Procs :
       /\ procs[p].pc = "lookup" /\ IsRemote(procs[p].u)
       /\ procs[q].pc = "lookup" /\ IsLocal(procs[q].u)
       /\ ~fs[procs[q].u].exists

\* The positions of a caller inside the local section of get (lines 82-108).
InLocalSection == {"stat", "lfetch", "lookup"}

Inside(p) == procs[p].pc \in InLocalSection /\ IsLocal(procs[p].u)

\* C17 (coarse local lock): at most one caller, across all local paths, is
\* inside the local section, and it is the holder of the lock; the outcome and
\* the modification time of a local path change only together, in the
\* recompute of the holder, to that recompute's outcome and to the time the
\* holder read; and a local caller returns from get the outcome stored at its
\* own lookup, which it makes as the holder.
C17_CoarseLocalLock ==
    /\ [](/\ \A p, q \in Procs : (Inside(p) /\ Inside(q)) => p = q
          /\ \A p \in Procs : Inside(p) <=> mutex = p)
    /\ [][/\ \A u \in LocalURLs :
               (indexes'[u] # indexes[u] \/ modtimes'[u] # modtimes[u])
                  => \E p \in Procs :
                        /\ mutex = p /\ procs[p].pc = "lfetch" /\ procs[p].u = u
                        /\ modtimes'[u] = procs[p].mod
                        /\ indexes'[u] # Absent
                        /\ procs'[p].pc = "lookup"
          /\ \A p \in Procs :
               (procs[p].pc = "lookup" /\ IsLocal(procs[p].u) /\ procs'[p] # procs[p])
                  => /\ mutex = p
                     /\ procs'[p].pc = "back"
                     /\ procs'[p].res = indexes[procs[p].u]
                     /\ mutex' = NoProc
       ]_vars

\* One caller is recomputing one local path while another caller, of another
\* path, waits for the lock.
C17_Witness ==
    \E p, q \in Procs :
       /\ procs[p].pc = "lfetch" /\ mutex = p
       /\ procs[q].pc = "lock"
       /\ procs[q].u # procs[p].u

\* C19 (modtime map invariant): in every reachable state a URL that has a
\* recorded modification time is a local path and has a stored outcome (so no
\* https URL ever has one), and once recorded, the modification time of a path
\* changes only to a strictly later value.
C19_ModtimeMap ==
    /\ [](\A u \in URLs :
             modtimes[u] # NoTime => (IsLocal(u) /\ ~IsRemote(u) /\ indexes[u] # Absent))
    /\ [][\A u \in URLs :
             (modtimes[u] # NoTime /\ modtimes'[u] # modtimes[u])
                => modtimes'[u] > modtimes[u]
       ]_vars

\* The holder of the lock has read a modification time earlier than the one
\* recorded for its path, and goes to the lookup without a recompute.
C19_Witness ==
    \E p \in Procs :
       /\ procs[p].pc = "lookup" /\ IsLocal(procs[p].u)
       /\ procs[p].mod # NoTime
       /\ procs[p].mod < modtimes[procs[p].u]

\* C18 (deadlock freedom and termination of get): under fair scheduling, with
\* computations that return, every caller inside get comes back from it; the
\* holder of the local lock is always a caller inside the local section of a
\* local path, so a remote caller never holds it and it is released on every
\* way out; only callers of remote URLs are ever inside or waiting on a
\* single-flight computation; and a computation that is running has a caller
\* running it, so that its waiters are released when it finishes.
C18_GetReturns ==
    /\ \A p \in Procs : (procs[p].pc \in InGet) ~> (procs[p].pc = "back")
    /\ [](/\ \A p \in Procs :
               mutex = p => (IsLocal(procs[p].u) /\ procs[p].pc \in InLocalSection)
          /\ \A p \in Procs :
               procs[p].pc \in {"once", "fetch", "fin"} => IsRemote(procs[p].u)
          /\ \A u \in RemoteURLs :
               onces[u] = "running"
                  <=> \E p \in Procs : procs[p].pc \in {"fetch", "fin"} /\ procs[p].u = u)

\* One caller waits in Do for the computation that another caller is running.
C18_Witness ==
    \E p, q \in Procs :
       /\ procs[p].pc = "once" /\ onces[procs[p].u] = "running"
       /\ procs[q].pc = "fetch" /\ procs[q].u = procs[p].u

====
